---- MODULE Spec2Model ----
(***************************************************************************)
(* Model of the OLTP demo load-test suite:                                 *)
(*   src/loadtest/locust/locustfile.py                                     *)
(*   src/loadtest/locust/scenarios/performance_demo.py                     *)
(*                                                                         *)
(* One invocation of a task, of make_request or of a utility function is   *)
(* one action taking pc from "ready" to "done" (generate_transfer_data,    *)
(* which loops on random draws, goes through pc = "transfer_loop").  The   *)
(* record of the invocation (what was sent, the response, the calls made   *)
(* on the response-marking API, the return value) is kept until the        *)
(* runtime takes the next turn.                                            *)
(*                                                                         *)
(* Numbers read from JSON bodies and the RPS are held in tenths            *)
(* (Units(2, 0) is 2.0); money is held in quarter cents.                    *)
(***************************************************************************)
EXTENDS Integers, Sequences, FiniteSets, TLC

VARIABLES
    pc,           \* "ready" | "transfer_loop" | "done"
    op,           \* the operation running or last run ("" when ready)
    input,        \* its arguments and random draws
    sent,         \* the HTTP requests it issued, in order
    response,     \* the response the client returned to it
    marks,        \* the calls it made to response.success() / response.failure()
    raised,       \* the exception that escaped it ("" when it returned normally)
    ret,          \* its return value
    account_ids,  \* CachingTasks.account_ids (<<>> before on_start)
    from_account, \* generate_transfer_data's local
    to_account    \* generate_transfer_data's local

vars == <<pc, op, input, sent, response, marks, raised, ret, account_ids,
          from_account, to_account>>

-----------------------------------------------------------------------------
(* Bounds of the model *)

\* how far around a threshold or a range end the sampled numbers go
EdgeWidth == 1
\* largest request count given to check_performance_thresholds
MaxRequests == 40
\* longest list and largest weight given to weighted_choice
MaxChoices == 3
MaxWeight == 2

-----------------------------------------------------------------------------
(* Python values *)

None == [t |-> "None", v |-> 0]

\* a decimal number in tenths
Units(whole, tenths) == whole * 10 + tenths

\* JSON values as json.loads returns them
Num(v) == [t |-> "num", v |-> v]             \* an int or float, in tenths
Bool(b) == [t |-> "bool", v |-> IF b THEN 1 ELSE 0]
BigInt(sign) == [t |-> "bigint", v |-> sign] \* an int beyond the float range
Inf == [t |-> "inf", v |-> 1]                \* 1e400, Infinity
NaN == [t |-> "nan", v |-> 0]
Null == [t |-> "null", v |-> 0]              \* JSON null, Python None
Str(s) == [t |-> "str", v |-> s]             \* a string, by its length

NonNumbers == {Null, Str(3)}
OddNumbers == {Bool(TRUE), BigInt(1), BigInt(-1), Inf, NaN}

\* the numbers sampled around a threshold
Near(thr) == {thr + d : d \in -EdgeWidth..EdgeWidth}
SampleNums(thrs) ==
    {Num(v) : v \in UNION {Near(t) : t \in thrs} \cup {0, Units(1, 0), Units(3, 0)}}
JsonValues(thrs) == SampleNums(thrs) \cup OddNumbers \cup NonNumbers

\* bodies: not JSON, JSON but no object, or an object with some of `keys`
EmptyDict == [k \in {} |-> Null]
Bodies(keys, values) ==
    {[kind |-> "invalid", fields |-> EmptyDict], [kind |-> "array", fields |-> EmptyDict]}
    \cup {[kind |-> "object", fields |-> f] :
            f \in UNION {[ks -> values] : ks \in SUBSET keys}}

StatusCodes == {0, 200, 404, 500, 503}
NoBody == [kind |-> "invalid", fields |-> EmptyDict]

\* the responses a task can get: the body matters to it under status 200 only
Responses(keys, values) ==
    {[status_code |-> 200, body |-> b] : b \in Bodies(keys, values)}
    \cup {[status_code |-> s, body |-> NoBody] : s \in StatusCodes \ {200}}

\* dict.get(key, default)
Get(d, key, default) == IF key \in DOMAIN d THEN d[key] ELSE default

\* x > thr, x >= thr raise TypeError unless x is a number
IsNumber(x) == x.t \in {"num", "bool", "bigint", "inf", "nan"}
Value(x) == IF x.t = "bool" THEN Units(x.v, 0) ELSE x.v
Gt(x, thr) ==
    CASE x.t \in {"num", "bool"} -> Value(x) > thr
      [] x.t \in {"bigint", "inf"} -> x.v > 0
      [] OTHER -> FALSE

\* f"{x:.1f}" raises OverflowError, TypeError or ValueError for these
FormatRaises(x) == x.t \in {"bigint", "null", "str"}

\* bool(x)
Truthy(x) ==
    CASE x.t \in {"num", "bool", "str"} -> x.v # 0
      [] x.t \in {"bigint", "inf", "nan"} -> TRUE
      [] OTHER -> FALSE

Success == [result |-> "success", message |-> ""]
Failure(msg) == [result |-> "failure", message |-> msg]

Outcome(ms, exc) == [marks |-> ms, raised |-> exc]

-----------------------------------------------------------------------------
Init ==
    /\ pc = "ready"
    /\ op = ""
    /\ input = None
    /\ sent = <<>>
    /\ response = None
    /\ marks = <<>>
    /\ raised = ""
    /\ ret = None
    /\ account_ids = <<>>
    /\ from_account = 0
    /\ to_account = 0

\* an invocation that ran to its end
Done(name, in, reqs, resp, out, value) ==
    /\ pc' = "done"
    /\ op' = name
    /\ input' = in
    /\ sent' = reqs
    /\ response' = resp
    /\ marks' = out.marks
    /\ raised' = out.raised
    /\ ret' = value
    /\ from_account' = 0
    /\ to_account' = 0

\* the runtime's wait between two turns: the invocation's record is dropped
next_turn ==
    /\ pc = "done"
    /\ pc' = "ready"
    /\ op' = ""
    /\ input' = None
    /\ sent' = <<>>
    /\ response' = None
    /\ marks' = <<>>
    /\ raised' = ""
    /\ ret' = None
    /\ UNCHANGED <<account_ids, from_account, to_account>>

Request(method, path, params, name, catch) ==
    [method |-> method, path |-> path, params |-> params, name |-> name,
     catch_response |-> catch]

-----------------------------------------------------------------------------
(* OltpDemoUser.make_request *)

\* response.text[:100] is the one call in the try block that can raise
MakeRequestResponses ==
    {[status_code |-> s, body |-> NoBody, text_raises |-> r] :
        s \in StatusCodes, r \in BOOLEAN}

make_request_outcome(resp, endpoint) ==
    IF resp.status_code = 200 THEN Outcome(<<Success>>, "")
    ELSE IF resp.status_code = 500 THEN
        IF resp.text_raises THEN Outcome(<<Failure("Exception")>>, "")
        ELSE Outcome(<<Failure("Server error")>>, "")
    ELSE IF resp.status_code = 404 THEN Outcome(<<Failure("Not found")>>, "")
    ELSE Outcome(<<Failure("Unexpected status")>>, "")

make_request_return_always(resp) == resp
make_request_return(resp) ==
    IF resp.status_code = 200 THEN resp ELSE None

MakeRequestCalls ==
    {[method |-> "GET", endpoint |-> "/actuator/health", name |-> "Health Check"],
     [method |-> "GET", endpoint |-> "/actuator/info", name |-> "Info Check"],
     [method |-> "POST", endpoint |-> "/api/accounts", name |-> ""]}

make_request ==
    /\ pc = "ready"
    /\ \E call \in MakeRequestCalls, resp \in MakeRequestResponses :
         Done("make_request", call,
              <<Request(call.method, call.endpoint, None,
                        IF call.name # "" THEN call.name
                        ELSE call.method \o " " \o call.endpoint, TRUE)>>,
              resp, make_request_outcome(resp, call.endpoint),
              make_request_return(resp))
    /\ UNCHANGED account_ids

-----------------------------------------------------------------------------
(* ConnectionPoolingTasks *)

PooledMinSpeedup == Units(2, 0)
PooledResponses == Responses({"speedupFactor"}, JsonValues({PooledMinSpeedup}))

\* speedup > 2.0
PooledPassesAtThreshold(speedup) == Gt(speedup, PooledMinSpeedup - 1)
PooledPasses(speedup) == Gt(speedup, PooledMinSpeedup)

test_pooled_connections_outcome(resp) ==
    IF resp.status_code = 200 THEN
        IF resp.body.kind # "object" THEN
            Outcome(<<Failure("Failed to parse response")>>, "")
        ELSE
            LET speedup == Get(resp.body.fields, "speedupFactor", Num(0)) IN
            IF ~IsNumber(speedup) THEN
                Outcome(<<Failure("Failed to parse response")>>, "")
            ELSE IF PooledPasses(speedup) THEN
                \* response.success(), then the debug line formats speedup
                IF FormatRaises(speedup)
                THEN Outcome(<<Success, Failure("Failed to parse response")>>, "")
                ELSE Outcome(<<Success>>, "")
            ELSE
                \* the failure message is formatted before response.failure()
                IF FormatRaises(speedup)
                THEN Outcome(<<Failure("Failed to parse response")>>, "")
                ELSE Outcome(<<Failure("Insufficient speedup")>>, "")
    ELSE Outcome(<<Failure("HTTP")>>, "")

test_pooled_connections ==
    /\ pc = "ready"
    /\ \E iterations \in {10, 50, 100}, resp \in PooledResponses :
         Done("test_pooled_connections", [iterations |-> iterations],
              <<Request("GET", "/api/demos/performance/connection-pooling",
                        [iterations |-> iterations],
                        "Connection Pooling (Pooled)", TRUE)>>,
              resp, test_pooled_connections_outcome(resp), None)
    /\ UNCHANGED account_ids

ConcurrentMinSuccessRate == Units(95, 0)
ConcurrentValues ==
    JsonValues({Units(95, 0), Units(100, 0)}) \cup {Num(0 - Units(1, 0))}
ConcurrentResponses ==
    Responses({"successfulQueries", "totalQueries"}, ConcurrentValues)

\* a * 100.0 raises TypeError or OverflowError for these
MulFloatRaises(a) == a.t \in {"null", "str", "bigint"}
\* x / b raises TypeError, OverflowError or ZeroDivisionError for these
DivRaises(b) ==
    \/ b.t \in {"null", "str", "bigint"}
    \/ b.t \in {"num", "bool"} /\ Value(b) = 0

\* (a * 100.0) / b >= thr, for a and b that raise nothing
RateAbove(a, b, thr) ==
    IF a.t = "nan" \/ b.t \in {"nan", "inf"} THEN FALSE
    ELSE IF a.t = "inf" THEN Value(b) > 0
    ELSE IF Value(b) > 0 THEN Value(a) * 100 * 10 > thr * Value(b)
    ELSE Value(a) * 100 * 10 < thr * Value(b)
RateAtLeast(a, b, thr) ==
    IF a.t = "nan" \/ b.t \in {"nan", "inf"} THEN FALSE
    ELSE IF a.t = "inf" THEN Value(b) > 0
    ELSE IF Value(b) > 0 THEN Value(a) * 100 * 10 >= thr * Value(b)
    ELSE Value(a) * 100 * 10 =< thr * Value(b)

test_concurrent_pooling_outcome(resp) ==
    IF resp.status_code = 200 THEN
        IF resp.body.kind # "object" THEN
            Outcome(<<Failure("Failed to parse response")>>, "")
        ELSE
            LET successful == Get(resp.body.fields, "successfulQueries", Num(0))
                total == Get(resp.body.fields, "totalQueries", Num(Units(1, 0)))
            IN  IF MulFloatRaises(successful) \/ DivRaises(total) THEN
                    Outcome(<<Failure("Failed to parse response")>>, "")
                ELSE IF RateAtLeast(successful, total, ConcurrentMinSuccessRate) THEN
                    Outcome(<<Success>>, "")
                ELSE Outcome(<<Failure("Low success rate")>>, "")
    ELSE Outcome(<<Failure("HTTP")>>, "")

test_concurrent_pooling ==
    /\ pc = "ready"
    /\ \E clients \in {10, 20, 50}, queries \in {5, 10}, resp \in ConcurrentResponses :
         Done("test_concurrent_pooling",
              [concurrent_clients |-> clients, queries_per_client |-> queries],
              <<Request("GET", "/api/demos/performance/connection-pooling/concurrent",
                        [concurrentClients |-> clients, queriesPerClient |-> queries],
                        "Concurrent Connection Pooling", TRUE)>>,
              resp, test_concurrent_pooling_outcome(resp), None)
    /\ UNCHANGED account_ids

\* a request without catch_response: the task marks nothing itself
PlainResponses == {[status_code |-> s, body |-> NoBody] : s \in StatusCodes}

get_pool_statistics ==
    /\ pc = "ready"
    /\ \E resp \in PlainResponses :
         Done("get_pool_statistics", None,
              <<Request("GET", "/api/demos/performance/connection-pooling/stats",
                        None, "Pool Statistics", FALSE)>>,
              resp, Outcome(<<>>, ""), None)
    /\ UNCHANGED account_ids

-----------------------------------------------------------------------------
(* BatchOperationsTasks *)

BatchMinSpeedup == Units(3, 0)
BatchResponses == Responses({"speedupFactor"}, JsonValues({BatchMinSpeedup}))

test_batch_operations_outcome(resp) ==
    IF resp.status_code = 200 THEN
        IF resp.body.kind # "object" THEN
            Outcome(<<Failure("Failed to parse response")>>, "")
        ELSE
            LET speedup == Get(resp.body.fields, "speedupFactor", Num(0)) IN
            IF ~IsNumber(speedup) THEN
                Outcome(<<Failure("Failed to parse response")>>, "")
            ELSE IF Gt(speedup, BatchMinSpeedup) THEN
                IF FormatRaises(speedup)
                THEN Outcome(<<Success, Failure("Failed to parse response")>>, "")
                ELSE Outcome(<<Success>>, "")
            ELSE
                IF FormatRaises(speedup)
                THEN Outcome(<<Failure("Failed to parse response")>>, "")
                ELSE Outcome(<<Failure("Insufficient speedup")>>, "")
    ELSE Outcome(<<Failure("HTTP")>>, "")

test_batch_operations ==
    /\ pc = "ready"
    /\ \E record_count \in {50, 100, 200}, batch_size \in {50, 100},
          resp \in BatchResponses :
         Done("test_batch_operations",
              [record_count |-> record_count, batch_size |-> batch_size],
              <<Request("POST", "/api/demos/performance/batch-operations",
                        [recordCount |-> record_count, batchSize |-> batch_size],
                        "Batch Operations", TRUE)>>,
              resp, test_batch_operations_outcome(resp), None)
    /\ UNCHANGED account_ids

JpaMinRecordsPerSecond == Units(50, 0)
JpaResponses == Responses({"recordsPerSecond"}, JsonValues({JpaMinRecordsPerSecond}))

test_jpa_batch_outcome(resp) ==
    IF resp.status_code = 200 THEN
        IF resp.body.kind # "object" THEN
            Outcome(<<Failure("Failed to parse response")>>, "")
        ELSE
            LET records_per_sec == Get(resp.body.fields, "recordsPerSecond", Num(0)) IN
            IF ~IsNumber(records_per_sec) THEN
                Outcome(<<Failure("Failed to parse response")>>, "")
            ELSE IF Gt(records_per_sec, JpaMinRecordsPerSecond) THEN
                Outcome(<<Success>>, "")
            ELSE
                IF FormatRaises(records_per_sec)
                THEN Outcome(<<Failure("Failed to parse response")>>, "")
                ELSE Outcome(<<Failure("Low throughput")>>, "")
    ELSE Outcome(<<Failure("HTTP")>>, "")

test_jpa_batch ==
    /\ pc = "ready"
    /\ \E record_count \in {50, 100}, resp \in JpaResponses :
         Done("test_jpa_batch", [record_count |-> record_count],
              <<Request("POST", "/api/demos/performance/batch-operations/jpa",
                        [recordCount |-> record_count],
                        "JPA Batch Operations", TRUE)>>,
              resp, test_jpa_batch_outcome(resp), None)
    /\ UNCHANGED account_ids

-----------------------------------------------------------------------------
(* CachingTasks *)

MinAccountId == 1
MaxAccountId == 100

\* list(range(1, 101))
on_start_account_ids_short == [i \in 1..(MaxAccountId - MinAccountId) |-> MinAccountId + i - 1]
on_start_account_ids == [i \in 1..(MaxAccountId - MinAccountId + 1) |-> MinAccountId + i - 1]

\* the runtime runs on_start once, before the first task of the task set
on_start ==
    /\ pc = "ready"
    /\ account_ids = <<>>
    /\ account_ids' = on_start_account_ids
    /\ UNCHANGED <<pc, op, input, sent, response, marks, raised, ret,
                   from_account, to_account>>

CachingMinSpeedup == Units(1, 5)
CachingMinHitRate == Units(70, 0)
CachingResponses ==
    Responses({"speedupFactor", "cacheHitRate"},
              JsonValues({CachingMinSpeedup}) \cup JsonValues({CachingMinHitRate}))

\* speedup > 1.5 and hit_rate > 70
CachingPassesEither(speedup, hit_rate) ==
    Gt(speedup, CachingMinSpeedup) \/ Gt(hit_rate, CachingMinHitRate)
CachingPasses(speedup, hit_rate) ==
    Gt(speedup, CachingMinSpeedup) /\ Gt(hit_rate, CachingMinHitRate)

test_caching_outcome(resp) ==
    IF resp.status_code = 200 THEN
        IF resp.body.kind # "object" THEN
            Outcome(<<Failure("Failed to parse response")>>, "")
        ELSE
            LET speedup == Get(resp.body.fields, "speedupFactor", Num(0))
                hit_rate == Get(resp.body.fields, "cacheHitRate", Num(0))
            IN  \* `and` evaluates hit_rate > 70 only when speedup > 1.5 holds
                IF ~IsNumber(speedup) THEN
                    Outcome(<<Failure("Failed to parse response")>>, "")
                ELSE IF Gt(speedup, CachingMinSpeedup) /\ ~IsNumber(hit_rate) THEN
                    Outcome(<<Failure("Failed to parse response")>>, "")
                ELSE IF CachingPasses(speedup, hit_rate) THEN
                    IF FormatRaises(speedup) \/ FormatRaises(hit_rate)
                    THEN Outcome(<<Success, Failure("Failed to parse response")>>, "")
                    ELSE Outcome(<<Success>>, "")
                ELSE
                    IF FormatRaises(speedup) \/ FormatRaises(hit_rate)
                    THEN Outcome(<<Failure("Failed to parse response")>>, "")
                    ELSE Outcome(<<Failure("Insufficient performance")>>, "")
    ELSE Outcome(<<Failure("HTTP")>>, "")

\* random.choice(seq)
Choices(seq) == {seq[i] : i \in DOMAIN seq}

test_caching ==
    /\ pc = "ready"
    /\ account_ids # <<>>
    /\ \E account_id \in Choices(account_ids), iterations \in {5, 10},
          resp \in CachingResponses :
         Done("test_caching", [account_id |-> account_id, iterations |-> iterations],
              <<Request("GET", "/api/demos/performance/caching",
                        [accountId |-> account_id, iterations |-> iterations],
                        "Caching Performance", TRUE)>>,
              resp, test_caching_outcome(resp), None)
    /\ UNCHANGED account_ids

clear_cache ==
    /\ pc = "ready"
    /\ account_ids # <<>>
    /\ \E resp \in PlainResponses :
         Done("clear_cache", None,
              <<Request("POST", "/api/demos/performance/caching/clear",
                        None, "Clear Cache", FALSE)>>,
              resp, Outcome(<<>>, ""), None)
    /\ UNCHANGED account_ids

get_cache_statistics ==
    /\ pc = "ready"
    /\ account_ids # <<>>
    /\ \E resp \in PlainResponses :
         Done("get_cache_statistics", None,
              <<Request("GET", "/api/demos/performance/caching/stats",
                        None, "Cache Statistics", FALSE)>>,
              resp, Outcome(<<>>, ""), None)
    /\ UNCHANGED account_ids

-----------------------------------------------------------------------------
(* IndexingTasks *)

\* random.randint(a, b)
randint(a, b) == a..b

IndexingMinSpeedup == Units(5, 0)
IndexingResponses == Responses({"speedupFactor"}, JsonValues({IndexingMinSpeedup}))

test_indexing_outcome(resp) ==
    IF resp.status_code = 200 THEN
        IF resp.body.kind # "object" THEN
            Outcome(<<Failure("Failed to parse response")>>, "")
        ELSE
            LET speedup == Get(resp.body.fields, "speedupFactor", Num(0)) IN
            IF ~IsNumber(speedup) THEN
                Outcome(<<Failure("Failed to parse response")>>, "")
            ELSE IF Gt(speedup, IndexingMinSpeedup) THEN
                IF FormatRaises(speedup)
                THEN Outcome(<<Success, Failure("Failed to parse response")>>, "")
                ELSE Outcome(<<Success>>, "")
            ELSE
                IF FormatRaises(speedup)
                THEN Outcome(<<Failure("Failed to parse response")>>, "")
                ELSE Outcome(<<Failure("Insufficient speedup")>>, "")
    ELSE Outcome(<<Failure("HTTP")>>, "")

test_indexing ==
    /\ pc = "ready"
    /\ \E user_id \in randint(1, 100), resp \in IndexingResponses :
         Done("test_indexing", [user_id |-> user_id],
              <<Request("GET", "/api/demos/performance/indexing",
                        [userId |-> user_id], "Indexing Performance", TRUE)>>,
              resp, test_indexing_outcome(resp), None)
    /\ UNCHANGED account_ids

UsedIndexValues ==
    {Bool(TRUE), Bool(FALSE), Null, Str(0), Str(3), Num(0), Num(Units(1, 0))}
ExplainResponses == Responses({"usedIndex"}, UsedIndexValues)

\* if used_index:
ExplainPassesAlways(used_index) == TRUE
ExplainPasses(used_index) == Truthy(used_index)

test_indexed_query_explain_outcome(resp) ==
    IF resp.status_code = 200 THEN
        IF resp.body.kind # "object" THEN
            Outcome(<<Failure("Failed to parse response")>>, "")
        ELSE
            LET used_index == Get(resp.body.fields, "usedIndex", Bool(FALSE)) IN
            IF ExplainPasses(used_index) THEN Outcome(<<Success>>, "")
            ELSE Outcome(<<Failure("Query did not use index")>>, "")
    ELSE Outcome(<<Failure("HTTP")>>, "")

test_indexed_query_explain ==
    /\ pc = "ready"
    /\ \E user_id \in randint(1, 100), resp \in ExplainResponses :
         Done("test_indexed_query_explain", [user_id |-> user_id],
              <<Request("GET", "/api/demos/performance/indexing/indexed-query",
                        [userId |-> user_id], "Indexed Query (EXPLAIN)", TRUE)>>,
              resp, test_indexed_query_explain_outcome(resp), None)
    /\ UNCHANGED account_ids

-----------------------------------------------------------------------------
(* Utility functions of locustfile.py *)

\* money is held in quarter cents, so that a draw can lie below, on or above
\* the middle between two cents
Money(whole) == whole * 400

\* how far inside each end of its range random.uniform is sampled
MoneyEdge == 3

\* random.uniform(a, b): a + (b - a) * random(), either end included
uniform(a, b) ==
    {Money(a) + d : d \in 0..MoneyEdge} \cup {Money(b) - d : d \in 0..MoneyEdge}

\* round(x, 2): to the nearest cent; on the middle the float's last bit decides
Round2Unrounded(x) == {x}
Round2(x) ==
    CASE x % 4 = 0 -> {x}
      [] x % 4 = 1 -> {x - 1}
      [] x % 4 = 2 -> {x - 2, x + 2}
      [] OTHER -> {x + 1}

AccountStatuses == <<"ACTIVE", "ACTIVE", "ACTIVE", "SUSPENDED">>

generate_account_data ==
    /\ pc = "ready"
    /\ \E userId \in randint(1, 100), accountTypeId \in randint(1, 3),
          u \in uniform(100, 10000), status \in Choices(AccountStatuses) :
         \E balance \in Round2(u) :
            Done("generate_account_data", None, <<>>, None, Outcome(<<>>, ""),
                 [userId |-> userId, accountTypeId |-> accountTypeId,
                  balance |-> balance, status |-> status])
    /\ UNCHANGED account_ids

\* the condition of the loop that redraws to_account
SameAccountNever(from, to) == FALSE
SameAccountAlways(from, to) == TRUE
SameAccount(from, to) == to = from

generate_transfer_data_draw ==
    /\ pc = "ready"
    /\ pc' = "transfer_loop"
    /\ op' = "generate_transfer_data"
    /\ from_account' \in randint(1, 100)
    /\ to_account' \in randint(1, 100)
    /\ UNCHANGED <<input, sent, response, marks, raised, ret, account_ids>>

generate_transfer_data_redraw ==
    /\ pc = "transfer_loop"
    /\ SameAccount(from_account, to_account)
    /\ to_account' \in randint(1, 100)
    /\ UNCHANGED <<pc, op, input, sent, response, marks, raised, ret, account_ids,
                   from_account>>

generate_transfer_data_return ==
    /\ pc = "transfer_loop"
    /\ ~SameAccount(from_account, to_account)
    /\ \E u \in uniform(10, 500) : \E amount \in Round2(u) :
         Done("generate_transfer_data", None, <<>>, None, Outcome(<<>>, ""),
              [fromAccountId |-> from_account, toAccountId |-> to_account,
               amount |-> amount])
    /\ UNCHANGED account_ids

\* bisect.bisect_right(a, x, lo, hi) on 0-based positions of the sequence a
RECURSIVE bisect_left(_, _, _, _)
bisect_left(a, x, lo, hi) ==
    IF lo < hi THEN
        LET mid == (lo + hi) \div 2 IN
        IF a[mid + 1] < x THEN bisect_left(a, x, mid + 1, hi)
        ELSE bisect_left(a, x, lo, mid)
    ELSE lo

RECURSIVE bisect_right(_, _, _, _)
bisect_right(a, x, lo, hi) ==
    IF lo < hi THEN
        LET mid == (lo + hi) \div 2 IN
        IF x < a[mid + 1] THEN bisect_right(a, x, lo, mid)
        ELSE bisect_right(a, x, mid + 1, hi)
    ELSE lo

bisect(a, x, lo, hi) == bisect_right(a, x, lo, hi)

\* itertools.accumulate(weights)
RECURSIVE accumulate(_)
accumulate(weights) ==
    IF weights = <<>> THEN <<>>
    ELSE LET n == Len(weights)
             front == accumulate(SubSeq(weights, 1, n - 1))
         IN  Append(front, (IF n = 1 THEN 0 ELSE front[n - 1]) + weights[n])

ChoiceNames == <<"A", "B", "C", "D", "E">>

\* lists of (choice, weight) pairs, the choices distinct
WeightedLists ==
    UNION {{[i \in 1..n |-> <<ChoiceNames[i], w[i]>>] : w \in [1..n -> 0..MaxWeight]} :
             n \in 0..MaxChoices}

\* random() * total, by its integer part: it is compared with integers only
RandomBelow(total) == 0..(total - 1)

weighted_choice ==
    /\ pc = "ready"
    /\ \E choices_with_weights \in WeightedLists :
         LET n == Len(choices_with_weights)
             choices == [i \in 1..n |-> choices_with_weights[i][1]]
             weights == [i \in 1..n |-> choices_with_weights[i][2]]
             cum_weights == accumulate(weights)
             total == IF n = 0 THEN 0 ELSE cum_weights[n]
         IN  IF n = 0 \/ total <= 0 THEN
                 \* zip(*[]) cannot be unpacked; random.choices refuses total <= 0
                 Done("weighted_choice", [choices_with_weights |-> choices_with_weights],
                      <<>>, None, Outcome(<<>>, "ValueError"), None)
             ELSE
                 \E x \in RandomBelow(total) :
                    Done("weighted_choice",
                         [choices_with_weights |-> choices_with_weights, random |-> x],
                         <<>>, None, Outcome(<<>>, ""),
                         choices[bisect(cum_weights, x, 0, n - 1) + 1])
    /\ UNCHANGED account_ids

-----------------------------------------------------------------------------
(* PerformanceThresholds and check_performance_thresholds *)

MIN_SUCCESS_RATE == 95
MIN_RPS == 100

\* the statistics: failures never exceed requests; the RPS in tenths
StatsValues ==
    {[num_requests |-> r, num_failures |-> f, total_rps |-> rps] :
        r \in 0..MaxRequests, f \in 0..MaxRequests,
        rps \in Near(Units(MIN_RPS, 0)) \cup {0, Units(50, 5), Units(250, 0)}}

\* ((total_requests - total_failures) * 100.0) / total_requests < min_rate
SuccessRateBelowOrAt(total_requests, total_failures, min_rate) ==
    (total_requests - total_failures) * 100 <= min_rate * total_requests
SuccessRateBelow(total_requests, total_failures, min_rate) ==
    (total_requests - total_failures) * 100 < min_rate * total_requests

\* the list `issues`
check_performance_thresholds_issues(stats) ==
    (IF stats.num_requests > 0
        /\ SuccessRateBelow(stats.num_requests, stats.num_failures, MIN_SUCCESS_RATE)
     THEN <<"Success rate below threshold">> ELSE <<>>)
    \o (IF stats.total_rps < Units(MIN_RPS, 0)
        THEN <<"RPS below threshold">> ELSE <<>>)

check_performance_thresholds ==
    /\ pc = "ready"
    /\ \E stats \in {s \in StatsValues : s.num_failures <= s.num_requests} :
         Done("check_performance_thresholds", stats, <<>>, None, Outcome(<<>>, ""),
              check_performance_thresholds_issues(stats) = <<>>)
    /\ UNCHANGED account_ids

-----------------------------------------------------------------------------
Next ==
    \/ next_turn
    \/ make_request
    \/ test_pooled_connections
    \/ test_concurrent_pooling
    \/ get_pool_statistics
    \/ test_batch_operations
    \/ test_jpa_batch
    \/ on_start
    \/ test_caching
    \/ clear_cache
    \/ get_cache_statistics
    \/ test_indexing
    \/ test_indexed_query_explain
    \/ generate_account_data
    \/ generate_transfer_data_draw
    \/ generate_transfer_data_redraw
    \/ generate_transfer_data_return
    \/ weighted_choice
    \/ check_performance_thresholds

Spec == Init /\ [][Next]_vars

\* generate_transfer_data alone, called again and again.  The interpreter
\* keeps running the function it is in, and the random source is fair: a
\* redraw that changes the state is one that drew another value than
\* from_account, so weak fairness of the redraw says that the source does
\* not return from_account for ever.
TransferNext ==
    \/ generate_transfer_data_draw
    \/ generate_transfer_data_redraw
    \/ generate_transfer_data_return
    \/ next_turn

TransferSpec ==
    /\ Init
    /\ [][TransferNext]_vars
    /\ WF_vars(generate_transfer_data_redraw)
    /\ WF_vars(generate_transfer_data_return)

-----------------------------------------------------------------------------
(* The claims *)

Range(seq) == {seq[i] : i \in DOMAIN seq}
Finished(name) == pc = "done" /\ op = name
IsFailure(mark) == mark.result = "failure"

\* C1: check_performance_thresholds returns false whenever the success rate
\* (requests - failures) * 100 / requests is below 95.0 or the RPS is below 100,
\* and true otherwise, for all counts with failures <= requests; with no
\* requests there is no rate to be below 95.0 and the RPS alone decides.
C1_ThresholdVerdict ==
    Finished("check_performance_thresholds") =>
        LET requests == input.num_requests
            failures == input.num_failures
            rate_below == requests > 0 /\ (requests - failures) * 100 < 95 * requests
            rps_below == input.total_rps < Units(100, 0)
        IN  /\ failures <= requests
            /\ ret = ~(rate_below \/ rps_below)

\* exactly 95 % at exactly 100 RPS passes
C1_Witness ==
    /\ Finished("check_performance_thresholds")
    /\ input.num_requests = 20 /\ input.num_failures = 1
    /\ input.total_rps = Units(100, 0)
    /\ ret = TRUE

\* C2: make_request marks status 200 as success and returns the response; it
\* marks 500, 404 and every other status as failure with the message of that
\* case and returns None; an exception raised while classifying is recorded as
\* a failure, yields None and does not escape.
C2_MakeRequestClassifies ==
    Finished("make_request") =>
        /\ raised = ""
        /\ Len(sent) = 1
        /\ CASE response.status_code = 200 ->
                    marks = <<Success>> /\ ret = response
             [] response.status_code = 500 ->
                    /\ marks = <<Failure(IF response.text_raises THEN "Exception"
                                         ELSE "Server error")>>
                    /\ ret = None
             [] response.status_code = 404 ->
                    marks = <<Failure("Not found")>> /\ ret = None
             [] OTHER ->
                    marks = <<Failure("Unexpected status")>> /\ ret = None

\* the exception raised while the 500 message is built is caught
C2_Witness ==
    /\ Finished("make_request")
    /\ response.status_code = 500 /\ response.text_raises
    /\ marks = <<Failure("Exception")>>
    /\ ret = None /\ raised = ""

\* the number read for `key` from a parsed object, 0 when the key is missing
Metric(key) == Get(response.body.fields, key, Num(0))
ParsedOk == response.status_code = 200 /\ response.body.kind = "object"

\* C3: test_pooled_connections marks success if and only if the status is 200
\* and speedupFactor is a number strictly greater than 2.0; a speedupFactor of
\* 2.0, a missing one (read as 0), a body that does not parse and a non-200
\* status are each marked as one failure.
C3_PooledSuccessIff ==
    Finished("test_pooled_connections") =>
        LET passes == /\ ParsedOk
                      /\ IsNumber(Metric("speedupFactor"))
                      /\ Gt(Metric("speedupFactor"), Units(2, 0))
        IN  /\ Success \in Range(marks) <=> passes
            /\ ~passes => Len(marks) = 1 /\ IsFailure(marks[1])

\* a speedupFactor of exactly 2.0 is marked as a failure
C3_Witness ==
    /\ Finished("test_pooled_connections")
    /\ ParsedOk
    /\ "speedupFactor" \in DOMAIN response.body.fields
    /\ response.body.fields["speedupFactor"] = Num(Units(2, 0))
    /\ marks = <<Failure("Insufficient speedup")>>

\* C4: test_indexed_query_explain marks success when the status is 200 and
\* usedIndex is true; it marks failure when usedIndex is false or absent, when
\* the body does not parse and when the status is not 200.
C4_ExplainUsedIndex ==
    Finished("test_indexed_query_explain") =>
        LET fields == response.body.fields
            present == ParsedOk /\ "usedIndex" \in DOMAIN fields
        IN  /\ (present /\ fields["usedIndex"] = Bool(TRUE)) => marks = <<Success>>
            /\ (present /\ fields["usedIndex"] = Bool(FALSE))
                    => marks = <<Failure("Query did not use index")>>
            /\ (ParsedOk /\ ~present) => marks = <<Failure("Query did not use index")>>
            /\ (response.status_code = 200 /\ ~ParsedOk)
                    => marks = <<Failure("Failed to parse response")>>
            /\ response.status_code # 200 => marks = <<Failure("HTTP")>>

\* usedIndex = false under status 200 is marked as a failure
C4_Witness ==
    /\ Finished("test_indexed_query_explain")
    /\ ParsedOk
    /\ "usedIndex" \in DOMAIN response.body.fields
    /\ response.body.fields["usedIndex"] = Bool(FALSE)
    /\ marks = <<Failure("Query did not use index")>>

\* C5: every payload generate_transfer_data returns has fromAccountId different
\* from toAccountId, both in 1..100.
C5_TransferAccountsDiffer ==
    Finished("generate_transfer_data") =>
        /\ ret.fromAccountId # ret.toAccountId
        /\ ret.fromAccountId \in 1..100
        /\ ret.toAccountId \in 1..100

\* a payload was returned
C5_Witness ==
    /\ Finished("generate_transfer_data")
    /\ ret.fromAccountId = 100 /\ ret.toAccountId = 1

\* C6: every payload generate_account_data returns has a balance in
\* [100, 10000] that is a whole number of cents, a status out of the list
\* ACTIVE, ACTIVE, ACTIVE, SUSPENDED, a userId in 1..100 and an accountTypeId
\* in 1..3.
C6_AccountDataRanges ==
    Finished("generate_account_data") =>
        /\ ret.balance >= Money(100) /\ ret.balance <= Money(10000)
        /\ ret.balance % 4 = 0
        /\ Len(AccountStatuses) = 4
        /\ \E i \in 1..4 : ret.status = <<"ACTIVE", "ACTIVE", "ACTIVE", "SUSPENDED">>[i]
        /\ ret.userId \in 1..100
        /\ ret.accountTypeId \in 1..3

\* a balance of 100.01, reached only by rounding a draw up to the next cent
C6_Witness ==
    /\ Finished("generate_account_data")
    /\ ret.balance = Money(100) + 4
    /\ ret.status = "SUSPENDED"

\* C7: weighted_choice([(A, 1), (B, 0)]) returns A; for every non-empty list
\* with a positive weight it returns one of the listed choices, and never one
\* whose weight is 0.
C7_WeightedChoiceSkipsZero ==
    Finished("weighted_choice") =>
        LET pairs == input.choices_with_weights
            positive == {i \in DOMAIN pairs : pairs[i][2] > 0}
        IN  /\ positive # {} => raised = "" /\ \E i \in positive : ret = pairs[i][1]
            /\ pairs = << <<"A", 1>>, <<"B", 0>> >> => ret = "A"

\* the zero weight comes first and the draw is 0: B is still returned
C7_Witness ==
    /\ Finished("weighted_choice")
    /\ input.choices_with_weights = << <<"A", 0>>, <<"B", 1>> >>
    /\ ret = "B"

ValidatingTasks ==
    {"test_pooled_connections", "test_concurrent_pooling", "test_batch_operations",
     "test_jpa_batch", "test_caching", "test_indexing", "test_indexed_query_explain"}

\* C8: for every response (any status, any JSON body, a body that does not
\* parse) one invocation of a validating task issues exactly one request,
\* marks the response exactly once, as success or as failure and never both,
\* and returns without raising.
C8_OneRequestOneMark ==
    (pc = "done" /\ op \in ValidatingTasks) =>
        /\ Len(sent) = 1
        /\ Len(marks) = 1
        /\ marks[1].result \in {"success", "failure"}
        /\ raised = ""

CachingTaskNames == {"test_caching", "clear_cache", "get_cache_statistics"}
ScenarioTaskNames ==
    ValidatingTasks \cup CachingTaskNames \cup {"get_pool_statistics"}

\* C9: no scenario task writes state that outlives its invocation: each leaves
\* account_ids, the one field kept between invocations, as it found it, and
\* every CachingTasks task finds the list 1..100 that on_start set, whatever
\* ran before.
C9_TasksKeepAccountIds ==
    [][(pc' = "done" /\ op' \in ScenarioTaskNames) =>
            /\ account_ids' = account_ids
            /\ op' \in CachingTaskNames => account_ids = [i \in 1..100 |-> i]]_vars

\* test_caching has run on the list on_start set and has left it whole
C9_Witness ==
    /\ Finished("test_caching")
    /\ input.account_id = 100
    /\ Len(account_ids) = 100 /\ account_ids[100] = 100

\* C10: test_caching marks success if and only if the status is 200 and both
\* speedupFactor > 1.5 and cacheHitRate > 70 hold (strictly, a missing field
\* read as 0); with either metric at or below its threshold the request is
\* marked as one failure, even when the other metric passes.
C10_CachingNeedsBoth ==
    Finished("test_caching") =>
        LET speedup == Metric("speedupFactor")
            hit_rate == Metric("cacheHitRate")
            passes == /\ ParsedOk
                      /\ IsNumber(speedup) /\ Gt(speedup, Units(1, 5))
                      /\ IsNumber(hit_rate) /\ Gt(hit_rate, Units(70, 0))
        IN  /\ Success \in Range(marks) <=> passes
            /\ ~passes => Len(marks) = 1 /\ IsFailure(marks[1])

\* the speedup passes and the hit rate is exactly 70: a failure
C10_Witness ==
    /\ Finished("test_caching")
    /\ ParsedOk
    /\ DOMAIN response.body.fields = {"speedupFactor", "cacheHitRate"}
    /\ response.body.fields["speedupFactor"] = Num(Units(3, 0))
    /\ response.body.fields["cacheHitRate"] = Num(Units(70, 0))
    /\ marks = <<Failure("Insufficient performance")>>

\* C11: test_concurrent_pooling marks success if and only if the status is 200
\* and successfulQueries * 100 / totalQueries, with successfulQueries read as 0
\* and totalQueries as 1 when absent, has a value that is at least 95.0; when
\* the body reports totalQueries = 0 the division error is caught and the
\* request is marked as one failure, nothing being raised.
C11_ConcurrentSuccessRate ==
    Finished("test_concurrent_pooling") =>
        LET fields == response.body.fields
            successful == Get(fields, "successfulQueries", Num(0))
            total == Get(fields, "totalQueries", Num(Units(1, 0)))
            finite(x) == x.t \in {"num", "bool"}
            \* the quotient has a value, and the value is at least 95
            at_least_95 ==
                \/ /\ finite(successful) /\ finite(total) /\ Value(total) > 0
                   /\ Value(successful) * 100 >= 95 * Value(total)
                \/ /\ finite(successful) /\ finite(total) /\ Value(total) < 0
                   /\ Value(successful) * 100 =< 95 * Value(total)
                \/ successful = Inf /\ finite(total) /\ Value(total) > 0
            passes == ParsedOk /\ at_least_95
        IN  /\ raised = ""
            /\ passes <=> marks = <<Success>>
            /\ ~passes => Len(marks) = 1 /\ IsFailure(marks[1])
            /\ (ParsedOk /\ total = Num(0))
                    => marks = <<Failure("Failed to parse response")>>

\* the body reports totalQueries = 0 beside a positive successfulQueries: the
\* ZeroDivisionError is caught and marked
C11_Witness ==
    /\ Finished("test_concurrent_pooling")
    /\ ParsedOk
    /\ DOMAIN response.body.fields = {"successfulQueries", "totalQueries"}
    /\ response.body.fields["successfulQueries"] = Num(Units(100, 0))
    /\ response.body.fields["totalQueries"] = Num(0)
    /\ marks = <<Failure("Failed to parse response")>>
    /\ raised = ""

\* C12: generate_transfer_data terminates: under a fair random source the loop
\* that redraws to_account while it equals from_account is left and the
\* payload is returned; and when the two draws differ there is no redraw, the
\* next step being the return of those very draws.
C12_TransferLoopExits ==
    /\ [][(pc = "transfer_loop" /\ to_account # from_account) =>
            /\ pc' = "done" /\ op' = "generate_transfer_data"
            /\ ret'.fromAccountId = from_account
            /\ ret'.toAccountId = to_account]_vars
    /\ (pc = "transfer_loop") ~> Finished("generate_transfer_data")

\* the two first draws are equal: the loop has to redraw
C12_Witness ==
    /\ pc = "transfer_loop"
    /\ from_account = 37 /\ to_account = 37
====
